---- MODULE Spec2Model ----
(***************************************************************************)
(* A model of the todoable client library: the domain model parsing of     *)
(* models.py, the error taxonomy of lib.py and the client of api.py.       *)
(*                                                                         *)
(* Python values that may be None are options: None is <<>> and a value v  *)
(* is <<v>>.  A JSON object (a dict) is a function from its keys to its    *)
(* values.  A wire timestamp is the pair <<wall, offset>>; a naive         *)
(* datetime is its wall-clock number alone.                                *)
(***************************************************************************)
EXTENDS Integers, Sequences, FiniteSets, TLC

VARIABLES clients, HEADERS, now, last, payload

vars == <<clients, HEADERS, now, last, payload>>

(***************************************************************************)
(* Bounds of the model.                                                    *)
(***************************************************************************)
\* the longest items array of a payload drawn for parsing
MaxItems == 2
\* the clock runs over 0..MaxTime
MaxTime == 1

(***************************************************************************)
(* Options and dicts.                                                      *)
(***************************************************************************)
None == <<>>
Some(v) == <<v>>
IsNone(o) == o = <<>>
Val(o) == o[1]

EmptyDict == <<>>
\* a dict holding key k when the option o is a value, and nothing otherwise
Entry(k, o) == IF IsNone(o) THEN EmptyDict ELSE (k :> Val(o))
Has(d, k) == k \in DOMAIN d
\* dict.get(k): the value, or None
Get(d, k) == IF Has(d, k) THEN Some(d[k]) ELSE None
\* dict.update(e): e's keys win
Update(d, e) == e @@ d
\* '%s' % v of a string or None
Str(o) == IF IsNone(o) THEN "None" ELSE Val(o)

\* Python truthiness of an optional string, and of an optional list
TruthyStr(o) == ~IsNone(o) /\ Val(o) # ""
TruthySeq(o) == ~IsNone(o) /\ Val(o) # <<>>

(***************************************************************************)
(* lib.py: the error taxonomy.  KeyError, ValueError and                    *)
(* requests.ConnectionError are Python's and the transport's own            *)
(* exceptions, outside the taxonomy.                                        *)
(***************************************************************************)
ToDoableException == "ToDoableException"
TimeoutException == "TimeoutException"
AuthenticationError == "AuthenticationError"
MalformedResponseException == "MalformedResponseException"
InternalServerException == "InternalServerException"
InvalidRequestException == "InvalidRequestException"
RateLimitException == "RateLimitException"
NotFoundException == "NotFoundException"
BadResponse == "BadResponse"

Taxonomy ==
    { ToDoableException, BadResponse, TimeoutException, AuthenticationError,
      MalformedResponseException, InternalServerException,
      InvalidRequestException, RateLimitException, NotFoundException }

KeyError == "KeyError"
ValueError == "ValueError"
ConnectionError == "requests.ConnectionError"
NoError == "none"

Ok(v) == [raised |-> NoError, value |-> v]
Raise(e) == [raised |-> e, value |-> None]

\* the decorator left out: the KeyError escapes
handle_malformed_response_absent(r) == r

\* lib.handle_malformed_response: a KeyError of the wrapped method becomes
\* MalformedResponseException, anything else passes
handle_malformed_response(r) ==
    IF r.raised = KeyError THEN Raise(MalformedResponseException) ELSE r

(***************************************************************************)
(* models.py                                                               *)
(***************************************************************************)
\* parser.parse(s).replace(tzinfo=None): the offset is dropped, the wall
\* clock reading is kept
ParseNaive(ts) == ts[1]

MkListItem(name, id, src, finished_at) ==
    [cls |-> "ListItem", name |-> name, id |-> id, src |-> src,
     finished_at |-> finished_at]

MkList(name, id, items, src) ==
    [cls |-> "List", name |-> name, id |-> id, items |-> items, src |-> src]

\* the body of ListItem.from_dict, before the decorator
ListItemFromDictBody(d) ==
    IF ~Has(d, "finished_at") THEN Raise(KeyError)
    ELSE LET finished_at ==
                 IF ~IsNone(d["finished_at"])
                 THEN Some(ParseNaive(Val(d["finished_at"])))
                 ELSE None
         IN  IF ~Has(d, "name") THEN Raise(KeyError)
             ELSE IF ~Has(d, "id") THEN Raise(KeyError)
             ELSE IF ~Has(d, "src") THEN Raise(KeyError)
             ELSE Ok(MkListItem(d["name"], Some(d["id"]), Some(d["src"]),
                                finished_at))

ListItemFromDict(d) == handle_malformed_response(ListItemFromDictBody(d))

\* [ListItem.from_dict(i) for i in xs]: the first exception ends the
\* comprehension
RECURSIVE ParseItems(_, _)
ParseItems(xs, acc) ==
    IF xs = <<>> THEN Ok(acc)
    ELSE LET r == ListItemFromDict(Head(xs))
         IN  IF r.raised # NoError THEN r
             ELSE ParseItems(Tail(xs), Append(acc, r.value))

\* the truthiness test of List.from_dict on dict_.get('items')
ItemsGiven(d) == TruthySeq(Get(d, "items"))

\* the body of List.from_dict, before the decorator
ListFromDictBody(d) ==
    LET parsed == IF ItemsGiven(d)
                  THEN ParseItems(d["items"], <<>>)
                  ELSE Ok(None)
    IN  IF parsed.raised # NoError THEN parsed
        ELSE LET items == IF ItemsGiven(d) THEN Some(parsed.value) ELSE None
             IN  IF ~Has(d, "name") THEN Raise(KeyError)
                 ELSE IF ~Has(d, "id") THEN Raise(KeyError)
                 ELSE Ok(MkList(d["name"], Some(d["id"]), items,
                                Get(d, "src")))

ListFromDict(d) == handle_malformed_response(ListFromDictBody(d))

\* [List.from_dict(l) for l in xs]
RECURSIVE ParseLists(_, _)
ParseLists(xs, acc) ==
    IF xs = <<>> THEN Ok(acc)
    ELSE LET r == ListFromDict(Head(xs))
         IN  IF r.raised # NoError THEN r
             ELSE ParseLists(Tail(xs), Append(acc, r.value))

(***************************************************************************)
(* The payloads drawn for parsing: every subset of the keys.               *)
(***************************************************************************)
OptOf(S) == {None} \cup {Some(v) : v \in S}

\* wire timestamps: a wall clock reading and a zone offset
WireTimes == {<<1, 2>>}

ItemPayloads ==
    { Entry("name", n) @@ Entry("id", i) @@ Entry("src", s)
        @@ Entry("finished_at", f) :
        n \in OptOf({"item"}), i \in OptOf({"i1"}), s \in OptOf({"src/i1"}),
        f \in OptOf(OptOf(WireTimes)) }

RECURSIVE SeqsUpTo(_, _)
SeqsUpTo(S, n) ==
    IF n = 0 THEN {<<>>}
    ELSE LET shorter == SeqsUpTo(S, n - 1)
         IN  shorter \cup {Append(q, v) : q \in shorter, v \in S}

ListPayloads ==
    { Entry("name", n) @@ Entry("id", i) @@ Entry("src", s)
        @@ Entry("items", its) :
        n \in OptOf({"list"}), i \in OptOf({"L1"}), s \in OptOf({"src/L1"}),
        its \in OptOf(SeqsUpTo(ItemPayloads, MaxItems)) }

(***************************************************************************)
(* lib.py: configuration.                                                  *)
(***************************************************************************)
BASE_URL == "http://todoable.teachable.tech/api"
\* lib.DEFAULT_HEADERS
DEFAULT_HEADERS ==
    ("Accept" :> "application/json") @@ ("Content-Type" :> "application/json")
TIMEOUT == 2

(***************************************************************************)
(* The transport (requests) and the server: what one HTTP call gives.      *)
(***************************************************************************)
\* the call raised requests.ConnectionError
ConnFail == [conn |-> FALSE]
\* a response arrived
Resp(status, body) == [conn |-> TRUE, status |-> status, body |-> body]
\* a response body: JSON text of a dict, or text that is no JSON
JsonBody(d) == [json |-> TRUE, dict |-> d]
NotJson == [json |-> FALSE]
\* resp.json()
Json(resp) == IF resp.body.json THEN Ok(resp.body.dict) ELSE Raise(ValueError)
\* json.dumps(data)
JsonDumps(d) == [json |-> TRUE, dict |-> d]

\* one call as the transport saw it, with what it gave
HttpEvent(fn, url, headers, data, auth, tr) ==
    [ev |-> "http", fn |-> fn, url |-> url, headers |-> headers,
     data |-> data, auth |-> auth, timeout |-> TIMEOUT, outcome |-> tr]
UpdateEvent == [ev |-> "update_token"]

(***************************************************************************)
(* api.py: ToDoableClient.  A method's result is                           *)
(* [raised, value, client, trace]: the exception it raised (or none), the  *)
(* value it returned, the instance's fields after it and the calls it made.*)
(***************************************************************************)
Clients == {"c1", "c2"}
NoClient == [exists |-> FALSE]

MkClient(token, token_expiry, username, password) ==
    [exists |-> TRUE, token |-> token, token_expiry |-> token_expiry,
     username |-> username, password |-> password]

\* 'Token token=%s' % self._token
AuthorizationOf(token) == "Token token=" \o Str(token)

\* __init__'s self.HEADERS.update(...): HEADERS is the one dict of the class
InitHeaders(headers, token) ==
    Update(headers, "Authorization" :> AuthorizationOf(token))

Result(raised, value, client, trace) ==
    [raised |-> raised, value |-> value, client |-> client, trace |-> trace]

\* get_token(username, password), a classmethod: value is <<token, expiry>>
get_token(username, password, headers, tr) ==
    LET url == BASE_URL \o "/" \o "authenticate"
        call == HttpEvent("post", url, headers, None,
                          Some(<<username, password>>), tr)
        R(raised, value) == [raised |-> raised, value |-> value,
                             trace |-> <<call>>]
    IN  IF ~tr.conn THEN R(ConnectionError, None)
        ELSE IF tr.status = 401 THEN R(AuthenticationError, None)
        ELSE IF Json(tr).raised # NoError THEN R(Json(tr).raised, None)
        ELSE LET body == Json(tr).value
             IN  IF ~Has(body, "token") THEN R(KeyError, None)
                 ELSE IF ~Has(body, "expires_at") THEN R(KeyError, None)
                 ELSE R(NoError,
                        <<Some(body["token"]),
                          Some(ParseNaive(body["expires_at"]))>>)

\* the guard testing the username alone
HasCredentials_username_only(cl) == TruthyStr(cl.username)

\* the guard of update_token
HasCredentials(cl) == TruthyStr(cl.username) /\ TruthyStr(cl.password)

update_token(cl, headers, tr) ==
    IF ~HasCredentials(cl)
    THEN Result(AuthenticationError, None, cl, <<>>)
    ELSE LET g == get_token(cl.username, cl.password, headers, tr)
         IN  IF g.raised # NoError
             THEN Result(g.raised, None, cl, g.trace)
             ELSE Result(NoError, None,
                         [cl EXCEPT !.token = g.value[1],
                                    !.token_expiry = g.value[2]],
                         g.trace)

\* the 5xx range closed one short: 599 falls to the generic kind
_handle_error_short_range(status) ==
    IF status = 401 THEN AuthenticationError
    ELSE IF status = 404 THEN NotFoundException
    ELSE IF status \in {400, 422} THEN InvalidRequestException
    ELSE IF status = 429 THEN RateLimitException
    ELSE IF 500 <= status /\ status < 599 THEN InternalServerException
    ELSE ToDoableException

\* make_request._handle_error: the exception of a non-2xx status
_handle_error(status) ==
    IF status = 401 THEN AuthenticationError
    ELSE IF status = 404 THEN NotFoundException
    ELSE IF status \in {400, 422} THEN InvalidRequestException
    ELSE IF status = 429 THEN RateLimitException
    ELSE IF 500 <= status /\ status <= 599 THEN InternalServerException
    ELSE ToDoableException

\* the expiry compared strictly: a token expiring now is still used
NeedsUpdate_strict(cl, t) ==
    \/ ~TruthyStr(cl.token)
    \/ (~IsNone(cl.token_expiry) /\ t > Val(cl.token_expiry))

\* the test before make_request's call:
\* not self._token or self._token_expiry and utcnow() >= self._token_expiry
NeedsUpdate(cl, t) ==
    \/ ~TruthyStr(cl.token)
    \/ (~IsNone(cl.token_expiry) /\ t >= Val(cl.token_expiry))

\* headers or self.HEADERS
HeadersSent(hdrs, headers) ==
    IF ~IsNone(hdrs) /\ Val(hdrs) # EmptyDict THEN Val(hdrs) ELSE headers

\* a second attempt after a ConnectionError
Issue_retrying(cl, fn, url, sent, data, tr) ==
    LET call == HttpEvent(fn, url, sent, data, None, tr)
    IN  IF ~tr.conn THEN Result(TimeoutException, None, cl, <<call, call>>)
        ELSE IF ~(200 <= tr.status /\ tr.status <= 299)
        THEN Result(_handle_error(tr.status), None, cl, <<call>>)
        ELSE Result(NoError, tr, cl, <<call>>)

\* the try/except around func(...) and the status test after it
Issue(cl, fn, url, sent, data, tr) ==
    LET call == HttpEvent(fn, url, sent, data, None, tr)
    IN  IF ~tr.conn THEN Result(TimeoutException, None, cl, <<call>>)
        ELSE IF ~(200 <= tr.status /\ tr.status <= 299)
        THEN Result(_handle_error(tr.status), None, cl, <<call>>)
        ELSE Result(NoError, tr, cl, <<call>>)

\* make_request(func, url, headers, data) at time t; tra is what a token
\* fetch gives, tr what the requested call gives
make_request(cl, headers, t, fn, url, hdrs, data, tra, tr) ==
    LET sent == HeadersSent(hdrs, headers)
    IN  IF NeedsUpdate(cl, t)
        THEN LET u == update_token(cl, headers, tra)
             IN  IF u.raised # NoError
                 THEN Result(u.raised, None, cl, <<UpdateEvent>> \o u.trace)
                 ELSE LET r == Issue(u.client, fn, url, sent, data, tr)
                      IN  [r EXCEPT !.trace = <<UpdateEvent>> \o u.trace \o @]
        ELSE Issue(cl, fn, url, sent, data, tr)

(***************************************************************************)
(* api.py: the resource operations.                                        *)
(***************************************************************************)
ListsUrl == BASE_URL \o "/" \o "lists"
ListUrl(list_id) == BASE_URL \o "/" \o "lists" \o "/" \o list_id
ItemsUrl(list_id) ==
    BASE_URL \o "/" \o "lists" \o "/" \o list_id \o "/" \o "items"
ItemUrl(list_id, item_id) ==
    BASE_URL \o "/" \o "lists" \o "/" \o list_id \o "/" \o "items" \o "/"
        \o item_id
\* the item's own url, the finish segment forgotten
FinishUrl_unfinished(list_id, item_id) ==
    BASE_URL \o "/" \o "lists" \o "/" \o list_id \o "/" \o "items" \o "/"
        \o item_id

FinishUrl(list_id, item_id) ==
    BASE_URL \o "/" \o "lists" \o "/" \o list_id \o "/" \o "items" \o "/"
        \o item_id \o "/" \o "finish"

\* make_request(...).json(): the body of the response of a request
RequestJson(m) ==
    IF m.raised # NoError THEN m
    ELSE LET j == Json(m.value)
         IN  Result(j.raised, j.value, m.client, m.trace)

\* serialized.update({'id': list_id}) of get_list
MergeId(serialized, list_id) == Update(serialized, "id" :> list_id)

get_list(cl, headers, t, list_id, raw, tra, tr) ==
    LET m == RequestJson(make_request(cl, headers, t, "get", ListUrl(list_id),
                                      None, None, tra, tr))
    IN  IF m.raised # NoError THEN m
        ELSE LET serialized == MergeId(m.value, list_id)
                 parsed == ListFromDict(serialized)
             IN  IF raw THEN [m EXCEPT !.value = serialized]
                 ELSE Result(parsed.raised, parsed.value, m.client, m.trace)

\* F applied to the value of v, computed once
Bind(v, F(_)) == CHOOSE r \in {F(x) : x \in {v}} : TRUE

\* the loop of get_lists over the parsed lists, from the k-th on: per[id] is
\* what GET /lists/{id} gives
RECURSIVE LoadItems(_, _, _, _, _, _, _, _)
LoadItems(cl, headers, t, lists, k, tra, per, trace) ==
    IF k > Len(lists) THEN Result(NoError, lists, cl, trace)
    ELSE Bind(get_list(cl, headers, t, Val(lists[k].id), TRUE, tra,
                       per[Val(lists[k].id)]),
           LAMBDA g :
             IF g.raised # NoError
             THEN Result(g.raised, None, g.client, trace \o g.trace)
             ELSE IF ~Has(g.value, "items")
             THEN Result(KeyError, None, g.client, trace \o g.trace)
             ELSE Bind(ParseItems(g.value["items"], <<>>),
                    LAMBDA items :
                      IF items.raised # NoError
                      THEN Result(items.raised, None, g.client,
                                  trace \o g.trace)
                      ELSE Bind([lists EXCEPT ![k].items = Some(items.value)],
                             LAMBDA loaded :
                               Bind(trace \o g.trace,
                                 LAMBDA sofar :
                                   LoadItems(g.client, headers, t, loaded,
                                             k + 1, tra, per, sofar)))))

\* get_lists without its loop over the lists
get_lists_unloaded(cl, headers, t, raw, include_items, tra, tr, per) ==
    Bind(RequestJson(make_request(cl, headers, t, "get", ListsUrl, None, None,
                                  tra, tr)),
      LAMBDA m :
        IF m.raised # NoError \/ raw THEN m
        ELSE IF ~Has(m.value, "lists")
        THEN Result(KeyError, None, m.client, m.trace)
        ELSE Bind(ParseLists(m.value["lists"], <<>>),
               LAMBDA lists :
                 IF lists.raised # NoError
                 THEN Result(lists.raised, None, m.client, m.trace)
                 ELSE Result(NoError, lists.value, m.client, m.trace)))

get_lists(cl, headers, t, raw, include_items, tra, tr, per) ==
    Bind(RequestJson(make_request(cl, headers, t, "get", ListsUrl, None, None,
                                  tra, tr)),
      LAMBDA m :
        IF m.raised # NoError \/ raw THEN m
        ELSE IF ~Has(m.value, "lists")
        THEN Result(KeyError, None, m.client, m.trace)
        ELSE Bind(ParseLists(m.value["lists"], <<>>),
               LAMBDA lists :
                 IF lists.raised # NoError
                 THEN Result(lists.raised, None, m.client, m.trace)
                 ELSE IF include_items
                 THEN LoadItems(m.client, headers, t, lists.value, 1, tra,
                                per, m.trace)
                 ELSE Result(NoError, lists.value, m.client, m.trace)))

create_list(cl, headers, t, list_name, raw, tra, tr) ==
    LET data == [list |-> [name |-> list_name]]
        m == RequestJson(make_request(cl, headers, t, "post", ListsUrl, None,
                                      Some(JsonDumps(data)), tra, tr))
        parsed == ListFromDict(m.value)
    IN  IF m.raised # NoError \/ raw THEN m
        ELSE Result(parsed.raised, parsed.value, m.client, m.trace)

update_list(cl, headers, t, list_id, new_name, tra, tr) ==
    LET data == [list |-> [name |-> new_name]]
        m == make_request(cl, headers, t, "patch", ListUrl(list_id), None,
                          Some(JsonDumps(data)), tra, tr)
    IN  [m EXCEPT !.value = None]

delete_list(cl, headers, t, list_id, tra, tr) ==
    LET m == make_request(cl, headers, t, "delete", ListUrl(list_id), None,
                          None, tra, tr)
    IN  [m EXCEPT !.value = None]

create_list_item(cl, headers, t, list_id, item_name, raw, tra, tr) ==
    LET data == [item |-> [name |-> item_name]]
        m == RequestJson(make_request(cl, headers, t, "post",
                                      ItemsUrl(list_id), None,
                                      Some(JsonDumps(data)), tra, tr))
        parsed == ListItemFromDict(m.value)
    IN  IF m.raised # NoError \/ raw THEN m
        ELSE Result(parsed.raised, parsed.value, m.client, m.trace)

complete_list_item(cl, headers, t, list_id, item_id, tra, tr) ==
    LET m == make_request(cl, headers, t, "put", FinishUrl(list_id, item_id),
                          None, None, tra, tr)
    IN  [m EXCEPT !.value = None]

delete_list_item(cl, headers, t, list_id, item_id, tra, tr) ==
    LET m == make_request(cl, headers, t, "delete", ItemUrl(list_id, item_id),
                          None, None, tra, tr)
    IN  [m EXCEPT !.value = None]

(***************************************************************************)
(* The inputs: what callers pass and what the server answers.              *)
(***************************************************************************)
\* the token and expiry a caller of from_token passes
CallerTokens == {None, Some(""), Some("T1")}
Expiries == {None} \cup {Some(t) : t \in 0..MaxTime}
\* username and password: none, a username alone, both
Credentials ==
    {<<None, None>>, <<Some("user"), None>>, <<Some("user"), Some("pw")>>}

\* the tokens the server issues and the expires_at it sends with them
ServerTokens == {"S1", "S2"}
ServerTimes == {<<0, 1>>, <<MaxTime, 0>>}
TokenBodies ==
    { Entry("token", k) @@ Entry("expires_at", e) :
        k \in OptOf(ServerTokens), e \in OptOf(ServerTimes) }
    \ {EmptyDict}
FullTokenBody == [token |-> "S1", expires_at |-> <<MaxTime, 0>>]

\* what POST /authenticate may give
AuthOutcomes ==
    {ConnFail, Resp(401, NotJson), Resp(500, NotJson),
     Resp(503, JsonBody(FullTokenBody))}
    \cup {Resp(200, JsonBody(b)) : b \in TokenBodies}

\* the status codes tried on make_request
Statuses ==
    {199, 200, 204, 299, 300, 400, 401, 403, 404, 422, 429, 499, 500, 503,
     599, 600}
CallOutcomes == {ConnFail} \cup {Resp(st, NotJson) : st \in Statuses}

\* a failing answer to a resource operation
Failures == {ConnFail, Resp(404, NotJson), Resp(500, NotJson)}
Answers(bodies) ==
    Failures \cup {Resp(200, NotJson)}
        \cup {Resp(200, JsonBody(b)) : b \in bodies}

GoodItem ==
    [name |-> "milk", id |-> "i1", src |-> "src/i1", finished_at |-> None]
DoneItem ==
    [name |-> "eggs", id |-> "i2", src |-> "src/i2",
     finished_at |-> Some(<<1, 2>>)]
BadItem == [name |-> "milk", id |-> "i1", src |-> "src/i1"]

ListIds == {"L1", "L2"}
ItemIds == {"i1", "i2"}
\* the elements of the lists array of GET /lists
ListSummaries ==
    {[name |-> "list", id |-> i, src |-> "src/" \o i] : i \in ListIds}
        \cup {[name |-> "list"]}
MaxLists == 2
ListsBodies ==
    {EmptyDict} \cup {[lists |-> q] : q \in SeqsUpTo(ListSummaries, MaxLists)}

\* bodies of GET /lists/{id}
GetListBodies ==
    {[name |-> "list", items |-> <<>>],
     [name |-> "list", items |-> <<GoodItem, DoneItem>>],
     [name |-> "list", items |-> <<BadItem>>],
     [name |-> "list"],
     [items |-> <<GoodItem>>],
     [name |-> "list", id |-> "L9", items |-> <<DoneItem>>]}
\* what GET /lists/{id} gives for each id, inside get_lists
PerListOutcomes ==
    {ConnFail, Resp(404, NotJson)}
        \cup {Resp(200, JsonBody(b)) :
                b \in {[name |-> "list", items |-> <<GoodItem, DoneItem>>],
                       [name |-> "list", items |-> <<>>],
                       [name |-> "list", items |-> <<BadItem>>],
                       [name |-> "list"]}}

CreateListBodies ==
    {[name |-> "list", id |-> "L1", src |-> "src/L1"],
     [name |-> "list", id |-> "L1"], [name |-> "list"], EmptyDict}
CreateItemBodies == {GoodItem, DoneItem, BadItem, EmptyDict}

\* a token fetch's answer matters only when the request will fetch one
AuthChoices(cl, t) ==
    IF NeedsUpdate(cl, t) /\ HasCredentials(cl) THEN AuthOutcomes
    ELSE {ConnFail}

(***************************************************************************)
(* State: the instances, the class's HEADERS dict, the clock, and the      *)
(* last operation with its arguments, the instance before it, its result   *)
(* and its calls.                                                          *)
(***************************************************************************)
Idle == [op |-> "init"]

Init ==
    /\ clients = [c \in Clients |-> NoClient]
    /\ HEADERS = DEFAULT_HEADERS
    /\ now = 0
    /\ last = Idle
    /\ payload = [kind |-> "none"]

Record(c, op, args, raised, value, trace) ==
    [op |-> op, client |-> c, args |-> args, before |-> clients[c],
     headers |-> HEADERS, at |-> now, raised |-> raised, value |-> value,
     trace |-> trace]

\* a method of instance c returned or raised r
Finish(c, op, args, r) ==
    /\ clients' = [clients EXCEPT ![c] = r.client]
    /\ last' = Record(c, op, args, r.raised, r.value, r.trace)
    /\ UNCHANGED <<HEADERS, now, payload>>

\* instance c is there and the caller holds no unread result
Exists(c) == clients[c].exists /\ last = Idle
Absent(c) == ~clients[c].exists /\ last = Idle

\* __init__ of instance c
Construct(c, op, args, token, token_expiry, username, password, trace) ==
    /\ clients' = [clients EXCEPT
                     ![c] = MkClient(token, token_expiry, username, password)]
    /\ HEADERS' = InitHeaders(HEADERS, token)
    /\ last' = Record(c, op, args, NoError, c, trace)
    /\ UNCHANGED <<now, payload>>

FromToken(c) ==
    /\ Absent(c)
    /\ \E token \in CallerTokens, expiry \in Expiries, cr \in Credentials :
         Construct(c, "from_token",
                   [token |-> token, token_expiry |-> expiry,
                    username |-> cr[1], password |-> cr[2]],
                   token, expiry, cr[1], cr[2], <<>>)

FromCreds(c) ==
    /\ Absent(c)
    /\ \E tr \in AuthOutcomes :
         LET g == get_token(Some("user"), Some("pw"), HEADERS, tr)
             args == [username |-> Some("user"), password |-> Some("pw")]
         IN  IF g.raised # NoError
             THEN /\ last' = Record(c, "from_creds", args, g.raised, None,
                                    g.trace)
                  /\ UNCHANGED <<clients, HEADERS, now, payload>>
             ELSE Construct(c, "from_creds", args, g.value[1], g.value[2],
                            Some("user"), Some("pw"), g.trace)

UpdateToken(c) ==
    /\ Exists(c)
    /\ \E tra \in AuthOutcomes :
         Finish(c, "update_token", <<>>,
                update_token(clients[c], HEADERS, tra))

CustomHeaders == ("Accept" :> "text/plain")

MakeRequest(c) ==
    /\ Exists(c)
    /\ \E hdrs \in {None, Some(EmptyDict), Some(CustomHeaders)},
          tra \in AuthChoices(clients[c], now), tr \in CallOutcomes :
         Finish(c, "make_request",
                [func |-> "get", url |-> ListsUrl, headers |-> hdrs,
                 data |-> None],
                make_request(clients[c], HEADERS, now, "get", ListsUrl, hdrs,
                             None, tra, tr))

GetLists(c) ==
    /\ Exists(c)
    /\ \E raw \in BOOLEAN, include_items \in BOOLEAN,
          tra \in AuthChoices(clients[c], now),
          tr \in Answers(ListsBodies) :
         \E per \in (IF include_items /\ ~raw
                     THEN [ListIds -> PerListOutcomes]
                     ELSE {[i \in ListIds |-> ConnFail]}) :
           Finish(c, "get_lists",
                  [raw |-> raw, include_items |-> include_items],
                  get_lists(clients[c], HEADERS, now, raw, include_items,
                            tra, tr, per))

GetList(c) ==
    /\ Exists(c)
    /\ \E raw \in BOOLEAN, tra \in AuthChoices(clients[c], now),
          tr \in Answers(GetListBodies) :
         Finish(c, "get_list", [list_id |-> "L1", raw |-> raw],
                get_list(clients[c], HEADERS, now, "L1", raw, tra, tr))

CreateList(c) ==
    /\ Exists(c)
    /\ \E raw \in BOOLEAN, tra \in AuthChoices(clients[c], now),
          tr \in Answers(CreateListBodies) :
         Finish(c, "create_list", [list_name |-> "list", raw |-> raw],
                create_list(clients[c], HEADERS, now, "list", raw, tra, tr))

UpdateList(c) ==
    /\ Exists(c)
    /\ \E list_id \in ListIds, tra \in AuthChoices(clients[c], now),
          tr \in Answers({EmptyDict}) :
         Finish(c, "update_list",
                [list_id |-> list_id, new_name |-> "chores"],
                update_list(clients[c], HEADERS, now, list_id, "chores", tra,
                            tr))

DeleteList(c) ==
    /\ Exists(c)
    /\ \E list_id \in ListIds, tra \in AuthChoices(clients[c], now),
          tr \in Answers({EmptyDict}) :
         Finish(c, "delete_list", [list_id |-> list_id],
                delete_list(clients[c], HEADERS, now, list_id, tra, tr))

CreateListItem(c) ==
    /\ Exists(c)
    /\ \E raw \in BOOLEAN, tra \in AuthChoices(clients[c], now),
          tr \in Answers(CreateItemBodies) :
         Finish(c, "create_list_item",
                [list_id |-> "L1", item_name |-> "milk", raw |-> raw],
                create_list_item(clients[c], HEADERS, now, "L1", "milk", raw,
                                 tra, tr))

CompleteListItem(c) ==
    /\ Exists(c)
    /\ \E list_id \in ListIds, item_id \in ItemIds,
          tra \in AuthChoices(clients[c], now),
          tr \in Answers({EmptyDict}) :
         Finish(c, "complete_list_item",
                [list_id |-> list_id, item_id |-> item_id],
                complete_list_item(clients[c], HEADERS, now, list_id, item_id,
                                   tra, tr))

DeleteListItem(c) ==
    /\ Exists(c)
    /\ \E list_id \in ListIds, item_id \in ItemIds,
          tra \in AuthChoices(clients[c], now),
          tr \in Answers({EmptyDict}) :
         Finish(c, "delete_list_item",
                [list_id |-> list_id, item_id |-> item_id],
                delete_list_item(clients[c], HEADERS, now, list_id, item_id,
                                 tra, tr))

\* the caller takes the result of the last operation
Return ==
    /\ last # Idle
    /\ last' = Idle
    /\ UNCHANGED <<clients, HEADERS, now, payload>>

\* time passes
Tick ==
    /\ now < MaxTime
    /\ last = Idle
    /\ now' = now + 1
    /\ UNCHANGED <<clients, HEADERS, last, payload>>

\* the instance the operations of Spec act on
Acting == {"c1"}

Next ==
    \/ \E c \in Acting :
         \/ FromToken(c)
         \/ FromCreds(c)
         \/ UpdateToken(c)
         \/ MakeRequest(c)
         \/ GetLists(c)
         \/ GetList(c)
         \/ CreateList(c)
         \/ UpdateList(c)
         \/ DeleteList(c)
         \/ CreateListItem(c)
         \/ CompleteListItem(c)
         \/ DeleteListItem(c)
    \/ Return
    \/ Tick

Spec == Init /\ [][Next]_vars

(***************************************************************************)
(* The specification of two instances side by side: each is built from a   *)
(* token of its own, with no expiry and no credentials, so that no         *)
(* operation reauthenticates, and both issue requests in any order.        *)
(***************************************************************************)
BuildTokens == {"T1", "T2"}

\* ToDoableClient.from_token(token, None): no expiry, no credentials
FromTokenOnly(c) ==
    /\ Absent(c)
    /\ \E token \in BuildTokens :
         Construct(c, "from_token",
                   [token |-> Some(token), token_expiry |-> None,
                    username |-> None, password |-> None],
                   Some(token), None, None, None, <<>>)

NextShared ==
    \/ \E c \in Clients :
         \/ FromTokenOnly(c)
         \/ MakeRequest(c)
         \/ GetList(c)
         \/ DeleteList(c)
    \/ Return

SpecShared == Init /\ [][NextShared]_vars

(***************************************************************************)
(* The specification of parsing alone: a payload is drawn, then parsed.    *)
(***************************************************************************)
InitParse ==
    /\ clients = [c \in Clients |-> NoClient]
    /\ HEADERS = DEFAULT_HEADERS
    /\ now = 0
    /\ last = Idle
    /\ payload \in {[kind |-> "List", dict |-> d] : d \in ListPayloads}
                   \cup {[kind |-> "ListItem", dict |-> d] : d \in ItemPayloads}

ParseList ==
    /\ payload.kind = "List"
    /\ last = Idle
    /\ last' = [op |-> "List.from_dict", arg |-> payload.dict,
                result |-> ListFromDict(payload.dict)]
    /\ UNCHANGED <<clients, HEADERS, now, payload>>

ParseListItem ==
    /\ payload.kind = "ListItem"
    /\ last = Idle
    /\ last' = [op |-> "ListItem.from_dict", arg |-> payload.dict,
                result |-> ListItemFromDict(payload.dict)]
    /\ UNCHANGED <<clients, HEADERS, now, payload>>

NextParse == ParseList \/ ParseListItem

SpecParse == InitParse /\ [][NextParse]_vars

(***************************************************************************)
(* Claims about parsing, checked under SpecParse.                          *)
(***************************************************************************)
ItemRequired == {"name", "id", "src", "finished_at"}
ListRequired == {"name", "id"}
ItemComplete(d) == ItemRequired \subseteq DOMAIN d
\* a List payload none of whose required keys, nor any of its items' required
\* keys, is missing
ListComplete(d) ==
    /\ ListRequired \subseteq DOMAIN d
    /\ Has(d, "items") =>
           \A k \in 1..Len(d["items"]) : ItemComplete(d["items"][k])

ParsedList == last.op = "List.from_dict"
ParsedItem == last.op = "ListItem.from_dict"

\* C8 (as claimed): for a List payload with name and id that parses, items is
\* 'not loaded' (None) exactly when the payload has no items key, and with
\* the key present items is the sequence of the parsed elements, same
\* length and order, so that an empty array gives an empty sequence.
C8_ItemsLoadedIffKey ==
    (ParsedList /\ ListRequired \subseteq DOMAIN last.arg
       /\ last.result.raised = NoError) =>
        LET d == last.arg
            items == last.result.value.items
        IN  /\ IsNone(items) <=> ~Has(d, "items")
            /\ Has(d, "items") =>
                 /\ ~IsNone(items)
                 /\ Len(Val(items)) = Len(d["items"])
                 /\ \A k \in 1..Len(d["items"]) :
                        Val(items)[k] = ListItemFromDict(d["items"][k]).value

\* C9: parsing raises MalformedResponseException, and yields no object,
\* exactly when a required key is missing (name, id of a List; name, id, src,
\* finished_at of a ListItem, a null finished_at counting as present; any
\* required key of any element of a List's items); otherwise it raises
\* nothing and yields an object, whether or not a List has src.
C9_MalformedIffKeyMissing ==
    /\ ParsedItem =>
         /\ last.result.raised =
              (IF ItemComplete(last.arg) THEN NoError
               ELSE MalformedResponseException)
         /\ ItemComplete(last.arg) => last.result.value.cls = "ListItem"
         /\ ~ItemComplete(last.arg) => last.result.value = None
    /\ ParsedList =>
         /\ last.result.raised =
              (IF ListComplete(last.arg) THEN NoError
               ELSE MalformedResponseException)
         /\ ListComplete(last.arg) => last.result.value.cls = "List"
         /\ ~ListComplete(last.arg) => last.result.value = None

\* a List payload with name and id whose second item lacks finished_at was
\* parsed, and one without src parsed to an object
C9_Witness ==
    /\ ParsedList
    /\ ListRequired \subseteq DOMAIN last.arg
    /\ Has(last.arg, "items")
    /\ Len(last.arg["items"]) = 2
    /\ ItemComplete(last.arg["items"][1])
    /\ DOMAIN last.arg["items"][2] = {"name", "id", "src"}
    /\ last.result.raised = MalformedResponseException

(***************************************************************************)
(* Claims about the client, checked under Spec.                            *)
(***************************************************************************)
\* the operations that run make_request once, and all that run it
SingleRequestOps ==
    {"make_request", "get_list", "create_list", "update_list", "delete_list",
     "create_list_item", "complete_list_item", "delete_list_item"}
RequestOps == SingleRequestOps \cup {"get_lists"}

\* a call make_request was asked to make, and a token fetch
Requested(e) == e.ev = "http" /\ IsNone(e.auth)
Fetch(e) == e.ev = "http" /\ ~IsNone(e.auth)
Reauth(e) == e.ev = "update_token"
Count(trace, P(_)) == Cardinality({i \in DOMAIN trace : P(trace[i])})
HttpCalls(trace) == Count(trace, LAMBDA e : e.ev = "http")
\* the last operation's only requested call, when it made one
TheCall == last.trace[Len(last.trace)]
MadeCall == last.trace # <<>> /\ Requested(TheCall)

\* what the claims say of each status
KindOfStatus(st) ==
    CASE st \in 200..299 -> NoError
      [] st = 401 -> AuthenticationError
      [] st \in {400, 422} -> InvalidRequestException
      [] st = 404 -> NotFoundException
      [] st = 429 -> RateLimitException
      [] st \in 500..599 -> InternalServerException
      [] OTHER -> ToDoableException

\* C1: the status code of the response alone fixes what make_request does: a
\* status in 200..299 returns that response and raises nothing, any other
\* raises the kind tabulated for it, and no operation ends without an
\* exception on a response outside 200..299.
C1_StatusFixesOutcome ==
    /\ (last.op = "make_request" /\ MadeCall /\ TheCall.outcome.conn) =>
         /\ last.raised = KindOfStatus(TheCall.outcome.status)
         /\ last.raised = NoError => last.value = TheCall.outcome
         /\ last.raised # NoError => last.value = None
    /\ (last.op \in RequestOps) =>
         \A i \in DOMAIN last.trace :
            (Requested(last.trace[i]) /\ last.trace[i].outcome.conn
               /\ last.trace[i].outcome.status \notin 200..299) =>
                /\ i = Len(last.trace)
                /\ last.raised = KindOfStatus(last.trace[i].outcome.status)

\* make_request met status 600 and raised the umbrella error
C1_Witness ==
    /\ last.op = "make_request"
    /\ MadeCall
    /\ TheCall.outcome.conn
    /\ TheCall.outcome.status = 600
    /\ last.raised = ToDoableException

\* the states in which the claims say make_request reauthenticates: token
\* absent or empty, or an expiry set and the time at or past it
Stale(cl, t) ==
    \/ cl.token \in {None, Some("")}
    \/ (cl.token_expiry # None /\ Val(cl.token_expiry) <= t)

\* C2: an operation that runs make_request once calls update_token exactly
\* once, and before any HTTP call, when the token is absent or empty or the
\* expiry is set and not after the current time; otherwise it never calls it.
C2_ReauthExactlyWhenStale ==
    last.op \in SingleRequestOps =>
        IF Stale(last.before, last.at)
        THEN /\ Count(last.trace, Reauth) = 1
             /\ Reauth(last.trace[1])
        ELSE Count(last.trace, Reauth) = 0

\* a present token whose expiry equals the current time: one
\* reauthentication, then the fetch, then the requested call
C2_Witness ==
    /\ last.op = "make_request"
    /\ last.before.token = Some("T1")
    /\ last.before.token_expiry = Some(last.at)
    /\ Len(last.trace) = 3
    /\ Reauth(last.trace[1])
    /\ Fetch(last.trace[2])
    /\ Requested(last.trace[3])

\* the operation sent its requested call with the class's default headers
DefaultHeaders ==
    last.op \in SingleRequestOps /\
       (last.op = "make_request" =>
            last.args.headers \in {None, Some(EmptyDict)})

\* C3 (as claimed): a request sent with the default headers carries the
\* Authorization header of the token the client holds when it is sent, also
\* after a reauthentication replaced the token.
C3_RequestCarriesCurrentToken ==
    (DefaultHeaders /\ MadeCall) =>
        /\ Has(TheCall.headers, "Authorization")
        /\ TheCall.headers["Authorization"] =
             AuthorizationOf(clients[last.client].token)

NoCredentials(cl) == cl.username = None \/ cl.password = None

\* C4: without a username or without a password, update_token raises
\* AuthenticationError, and an operation whose make_request needs to
\* reauthenticate raises AuthenticationError with no HTTP call made and the
\* token and expiry as they were; from_token still constructs the client.
C4_NoCredentialsNoReauth ==
    /\ (last.op = "update_token" /\ NoCredentials(last.before)) =>
         /\ last.raised = AuthenticationError
         /\ last.trace = <<>>
         /\ clients[last.client] = last.before
    /\ (last.op \in RequestOps /\ NoCredentials(last.before)
          /\ Stale(last.before, last.at)) =>
         /\ last.raised = AuthenticationError
         /\ HttpCalls(last.trace) = 0
         /\ clients[last.client].token = last.before.token
         /\ clients[last.client].token_expiry = last.before.token_expiry
    /\ (last.op = "from_token") =>
         /\ last.raised = NoError
         /\ clients[last.client].exists
         /\ clients[last.client].token = last.args.token

\* a client holding a username but no password, its token expired, was asked
\* for a request
C4_Witness ==
    /\ last.op = "make_request"
    /\ last.before.username = Some("user")
    /\ last.before.password = None
    /\ last.before.token = Some("T1")
    /\ Stale(last.before, last.at)
    /\ last.raised = AuthenticationError

\* C5 (as claimed): from_creds makes one token fetch; when the endpoint
\* answers 401 or any other status outside 200..299 it raises
\* AuthenticationError and there is no client; when the fetch gives a token
\* and an expiry the client holds them and the credentials.
C5_FromCredsFailsWithAuthError ==
    last.op = "from_creds" =>
        /\ Len(last.trace) = 1 /\ Fetch(last.trace[1])
        /\ (last.trace[1].outcome.conn
              /\ last.trace[1].outcome.status \notin 200..299) =>
               /\ last.raised = AuthenticationError
               /\ ~clients[last.client].exists
        /\ last.raised = NoError =>
               /\ clients[last.client].exists
               /\ clients[last.client].username = Some("user")
               /\ clients[last.client].password = Some("pw")
               /\ clients[last.client].token =
                    Some(last.trace[1].outcome.body.dict["token"])

\* C6: an operation that runs make_request once makes the requested call at
\* most once, and exactly once when it ends in success or in Timeout; a
\* connection failure of that call raises Timeout, and nothing is attempted
\* after a requested call failed, by connection or by status.
C6_OneAttemptTimeoutOnFailure ==
    /\ last.op \in SingleRequestOps =>
         /\ Count(last.trace, Requested) <= 1
         /\ last.raised \in {NoError, TimeoutException} =>
                Count(last.trace, Requested) = 1
         /\ last.raised = TimeoutException => ~TheCall.outcome.conn
    /\ last.op \in RequestOps =>
         \A i \in DOMAIN last.trace :
            (Requested(last.trace[i]) /\
               (~last.trace[i].outcome.conn
                  \/ last.trace[i].outcome.status \notin 200..299)) =>
                /\ i = Len(last.trace)
                /\ ~last.trace[i].outcome.conn =>
                       last.raised = TimeoutException

\* make_request's call failed to connect after a reauthentication went well
C6_Witness ==
    /\ last.op = "make_request"
    /\ Len(last.trace) = 3
    /\ Requested(last.trace[3])
    /\ ~last.trace[3].outcome.conn
    /\ last.raised = TimeoutException

\* C7 (as claimed): whatever a public operation raises is a kind of the
\* taxonomy.
C7_FailuresInTaxonomy ==
    last # Idle => last.raised \in Taxonomy \cup {NoError}

RawOps == {"get_lists", "get_list", "create_list", "create_list_item"}
\* the JSON body the server sent to the operation's first requested call
FirstRequested ==
    last.trace[CHOOSE i \in DOMAIN last.trace :
                 /\ Requested(last.trace[i])
                 /\ \A j \in 1..(i - 1) : ~Requested(last.trace[j])]

\* C10 (as claimed): with raw set, list-all-lists, get-one-list, create-list
\* and create-item return exactly the JSON body the server sent, no key
\* added, removed or changed; without it they return the domain object
\* parsed from that body (get-one-list after the requested id is merged in).
C10_RawIsBodyUntouched ==
    (last.op \in RawOps /\ last.raised = NoError) =>
        LET body == FirstRequested.outcome.body.dict
        IN  IF last.args.raw THEN last.value = body
            ELSE CASE last.op = "create_list" ->
                        last.value = ListFromDict(body).value
                   [] last.op = "create_list_item" ->
                        last.value = ListItemFromDict(body).value
                   [] last.op = "get_list" ->
                        last.value =
                          ListFromDict(MergeId(body, last.args.list_id)).value
                   [] last.op = "get_lists" ->
                        /\ Len(last.value) = Len(body["lists"])
                        /\ \A k \in DOMAIN last.value :
                             last.value[k].cls = "List"

FireAndForgetOps ==
    {"update_list", "delete_list", "complete_list_item", "delete_list_item"}
\* the requested calls of the last operation, in order
RequestedCalls == SelectSeq(last.trace, Requested)
\* the method, path and body the table gives each fire-and-forget operation
TabulatedMethod ==
    CASE last.op = "update_list" -> "patch"
      [] last.op = "delete_list" -> "delete"
      [] last.op = "complete_list_item" -> "put"
      [] last.op = "delete_list_item" -> "delete"
TabulatedUrl ==
    CASE last.op \in {"update_list", "delete_list"} ->
           "http://todoable.teachable.tech/api/lists/" \o last.args.list_id
      [] last.op = "complete_list_item" ->
           "http://todoable.teachable.tech/api/lists/" \o last.args.list_id
             \o "/items/" \o last.args.item_id \o "/finish"
      [] last.op = "delete_list_item" ->
           "http://todoable.teachable.tech/api/lists/" \o last.args.list_id
             \o "/items/" \o last.args.item_id
TabulatedData ==
    IF last.op = "update_list"
    THEN Some(JsonDumps([list |-> [name |-> last.args.new_name]]))
    ELSE None

\* C11: rename list, delete list, complete item and delete item each run
\* make_request once: at most one requested call goes out, exactly one unless
\* the reauthentication before it failed, it has the tabulated method, path
\* (for the ids given) and body and the default headers, and on success the
\* operation returns None whatever the response was.
C11_OneTabulatedCallNothingReturned ==
    last.op \in FireAndForgetOps =>
        /\ Len(RequestedCalls) <= 1
        /\ (Len(RequestedCalls) = 0) =>
               /\ Stale(last.before, last.at)
               /\ last.raised # NoError
        /\ \A k \in DOMAIN RequestedCalls :
               /\ RequestedCalls[k].fn = TabulatedMethod
               /\ RequestedCalls[k].url = TabulatedUrl
               /\ RequestedCalls[k].data = TabulatedData
               /\ RequestedCalls[k].headers = last.headers
        /\ last.value = None
        /\ (Len(RequestedCalls) = 1 /\ TheCall.outcome.conn
              /\ TheCall.outcome.status \in 200..299) =>
               last.raised = NoError

\* item i2 of list L2 was completed and the 200 response dropped
C11_Witness ==
    /\ last.op = "complete_list_item"
    /\ last.args = [list_id |-> "L2", item_id |-> "i2"]
    /\ last.raised = NoError
    /\ Len(RequestedCalls) = 1
    /\ TheCall.outcome = Resp(200, JsonBody(EmptyDict))
    /\ last.value = None

\* a requested call that the transport or the server failed
FailedCall(e) == ~e.outcome.conn \/ e.outcome.status \notin 200..299
\* the lists array of the body of the first requested call
ListsSent == RequestedCalls[1].outcome.body.dict["lists"]
\* the items array of the body of the k-th requested call
ItemsSent(k) == RequestedCalls[k].outcome.body.dict["items"]
\* list object l carries, in order, the items of the array xs
CarriesItems(l, xs) ==
    /\ l.items # None
    /\ Len(Val(l.items)) = Len(xs)
    /\ \A j \in DOMAIN xs :
           /\ Val(l.items)[j].cls = "ListItem"
           /\ Val(l.items)[j].name = xs[j].name
           /\ Val(l.items)[j].id = Some(xs[j].id)
           /\ Val(l.items)[j].finished_at # None
                <=> xs[j].finished_at # None

\* C12: get_lists with raw false.  The first requested call is GET /lists.
\* With include_items, a success has made N+1 requested calls for the N
\* elements of the lists array: the k-th list returned has the id of the k-th
\* element, call k+1 is GET /lists/{that id}, and the list carries the items
\* of that call's response; on an error the calls made are a prefix of those.
\* Without include_items at most one requested call is made, exactly one on
\* success, and every list returned has items None.  A requested call that
\* fails is the last thing the operation does and its error is raised; an
\* operation that raises returns no lists.  Token fetches are not counted.
C12_ListsThenEachListInOrder ==
    (last.op = "get_lists" /\ ~last.args.raw) =>
        /\ RequestedCalls # <<>> =>
               /\ RequestedCalls[1].fn = "get"
               /\ RequestedCalls[1].url =
                    "http://todoable.teachable.tech/api/lists"
        /\ \A k \in DOMAIN RequestedCalls :
               FailedCall(RequestedCalls[k]) =>
                   /\ k = Len(RequestedCalls)
                   /\ RequestedCalls[k] = TheCall
                   /\ last.raised # NoError
        /\ last.raised # NoError => last.value = None
        /\ ~last.args.include_items => Len(RequestedCalls) <= 1
        /\ \A k \in 2..Len(RequestedCalls) :
               /\ k - 1 <= Len(ListsSent)
               /\ RequestedCalls[k].fn = "get"
               /\ RequestedCalls[k].url =
                    "http://todoable.teachable.tech/api/lists/"
                        \o ListsSent[k - 1].id
               /\ RequestedCalls[k].data = None
        /\ last.raised = NoError =>
               /\ Len(last.value) = Len(ListsSent)
               /\ Len(RequestedCalls) =
                    IF last.args.include_items THEN Len(ListsSent) + 1 ELSE 1
               /\ \A k \in DOMAIN ListsSent :
                      /\ last.value[k].cls = "List"
                      /\ last.value[k].id = Some(ListsSent[k].id)
                      /\ IF last.args.include_items
                         THEN CarriesItems(last.value[k], ItemsSent(k + 1))
                         ELSE last.value[k].items = None

\* two lists came back, L2 before L1, each with the items of its own response
C12_Witness ==
    /\ last.op = "get_lists"
    /\ ~last.args.raw
    /\ last.args.include_items
    /\ last.raised = NoError
    /\ Len(RequestedCalls) = 3
    /\ ListsSent[1].id = "L2"
    /\ ListsSent[2].id = "L1"
    /\ Val(last.value[1].items) = <<>>
    /\ Len(Val(last.value[2].items)) = 2

\* the second of three calls failed and nothing was returned
C12_WitnessFailure ==
    /\ last.op = "get_lists"
    /\ last.args.include_items
    /\ Len(RequestedCalls) = 2
    /\ Len(ListsSent) = 2
    /\ FailedCall(RequestedCalls[2])
    /\ last.value = None

\* C13 (as claimed): a request that an instance sends with the default headers
\* carries the Authorization header of that instance's token, and not that of
\* another instance built with a different token, whatever was constructed or
\* requested in between.
C13_RequestCarriesOwnToken ==
    (DefaultHeaders /\ MadeCall) =>
        /\ Has(TheCall.headers, "Authorization")
        /\ TheCall.headers["Authorization"] =
             "Token token=" \o Val(clients[last.client].token)
        /\ \A o \in Clients \ {last.client} :
               (clients[o].exists
                  /\ clients[o].token # clients[last.client].token) =>
                   TheCall.headers["Authorization"] #
                       "Token token=" \o Val(clients[o].token)

====
